---- MODULE Spec2Model ----
(***************************************************************************)
(* Cart, checkout and order/stock reconciliation of the wallpaper store    *)
(* (store/views.py, store/models.py).  Every request handler is one        *)
(* action: requests are served one at a time, each running to completion.  *)
(* Money is counted in hundredths (DecimalField, decimal_places=2).        *)
(***************************************************************************)
EXTENDS Integers, Sequences, FiniteSets, TLC

\* ---------------------------------------------------------------- bounds
NumUsers == 2
NumProducts == 2
MaxStock == 2
MaxOrders == 2
\* the shop users of the runs that follow one shopper
NumSoloUsers == 1
\* the orders placed in the runs that follow every shopper or the prices
MaxOrdersShared == 1

Users == 1..NumUsers
SoloUsers == 1..NumSoloUsers
Products == 1..NumProducts
OrderIds == 1..MaxOrders

\* ------------------------------------------------------ program constants
\* Order.STATUS_CHOICES
STATUS_CHOICES == {"new", "processing", "paid", "shipped", "completed", "cancelled"}
\* the flat delivery fee added by checkout, in currency units
DeliveryFee == 500
\* Product.price / OrderItem.price / Order.total_price keep two decimals
PriceScale == 100

\* ------------------------------------------------------------ input sets
NoValue == "<none>"
\* prices an administrator may give a product, in hundredths
Prices == {19900, 45050}
InitialPrice == [p \in Products |-> IF p = 1 THEN 19900 ELSE 45050]
\* request.POST.get('delivery_method') as the checkout form may send it
DeliveryInputs == {NoValue, "pickup", "delivery", "courier"}
\* request.POST.get('status') as the admin order form may send it
StatusInputs == STATUS_CHOICES \cup {NoValue}
\* request.POST.get('quantity') of update_cart_item, after int()
QuantityInputs == -1..(MaxStock + 1)
Methods == {"GET", "POST"}

\* ----------------------------------------------------------------- state
VARIABLES
    stock,      \* Product.stock, per product
    price,      \* Product.price, per product, in hundredths
    hasCart,    \* per user: does the user's Cart row exist
    cartItems,  \* per user: the CartItem rows of the user's cart
    orders,     \* the Order rows, by id, each with its OrderItem rows
    nextOrder,  \* the next Order id the database hands out
    checkouts,  \* per user: the checkout request being served step by step
    last        \* the request served last and its outcome

vars == <<stock, price, hasCart, cartItems, orders, nextOrder, checkouts, last>>

\* ---------------------------------------------------------------- helpers
\* every order in which a query set's rows may be iterated
RowOrders(S) ==
    {sq \in [1..Cardinality(S) -> S] : \A i, j \in 1..Cardinality(S) : i # j => sq[i] # sq[j]}

RowOrder(S) == CHOOSE sq \in RowOrders(S) : TRUE

\* CartItem.total_price / OrderItem.total_price
RECURSIVE SumSeq(_)
SumSeq(sq) == IF sq = <<>> THEN 0 ELSE Head(sq) + SumSeq(Tail(sq))

\* the request served last: the view, the requesting shop user (none for an
\* administrator), the order it addressed (none for a cart view), each as a
\* set of at most one element, the status that order had when the request
\* arrived (NoValue if none) and the outcome
Served(op, user, order, was, result) ==
    [op |-> op, user |-> user, order |-> order, was |-> was, result |-> result]

\* CartItem.objects.filter(cart__user=u, product=p)
LinesOf(u, p) == {item \in cartItems[u] : item.product = p}

\* a checkout request between its statements: the order it created, the cart
\* lines its loop of line 192 still has to take, and the stock of the Product
\* row that the loop body holds in memory (each a set of at most one element)
NoCheckout == [order |-> {}, todo |-> <<>>, product_stock |-> {}]

\* the users who have no request in progress
Waiting(users) == {u \in users : checkouts[u] = NoCheckout}

\* ------------------------------------------------------------------ Init
Init ==
    /\ stock = [p \in Products |-> MaxStock]
    /\ price = InitialPrice
    /\ hasCart = [u \in Users |-> FALSE]
    /\ cartItems = [u \in Users |-> {}]
    /\ orders = [o \in {} |-> {}]
    /\ nextOrder = 1
    /\ checkouts = [u \in Users |-> NoCheckout]
    /\ last = Served("none", {}, {}, NoValue, "ok")

\* ------------------------------------------------------------- cart views
\* cart_view: Cart.objects.get_or_create(user=request.user), then render
cart_view(u) ==
    /\ hasCart' = [hasCart EXCEPT ![u] = TRUE]
    /\ last' = Served("cart_view", {u}, {}, NoValue, "rendered")
    /\ UNCHANGED <<stock, price, cartItems, orders, nextOrder>>

\* add_to_cart, line 105: the product is out of stock
add_out_of_stock_negative(p) == stock[p] < 0

add_out_of_stock(p) == stock[p] <= 0

\* add_to_cart, line 114: one more unit would exceed the stock
add_exceeds_stock_late(item) == item.quantity > stock[item.product]

add_exceeds_stock(item) == item.quantity + 1 > stock[item.product]

\* add_to_cart, line 120: the line just created exceeds the stock
created_exceeds_stock(item) == item.quantity > stock[item.product]

add_to_cart(u, p) ==
    IF add_out_of_stock(p)
    THEN /\ last' = Served("add_to_cart", {u}, {}, NoValue, "OutOfStock")
         /\ UNCHANGED <<stock, price, hasCart, cartItems, orders, nextOrder>>
    ELSE /\ hasCart' = [hasCart EXCEPT ![u] = TRUE]
         /\ UNCHANGED <<stock, price, orders, nextOrder>>
         /\ IF LinesOf(u, p) # {}
            THEN \* get_or_create found the line
                 LET item == CHOOSE i \in LinesOf(u, p) : TRUE IN
                 IF add_exceeds_stock(item)
                 THEN /\ cartItems' = cartItems
                      /\ last' = Served("add_to_cart", {u}, {}, NoValue, "InsufficientStock")
                 ELSE /\ cartItems' = [cartItems EXCEPT ![u] =
                              (@ \ {item}) \cup {[item EXCEPT !.quantity = @ + 1]}]
                      /\ last' = Served("add_to_cart", {u}, {}, NoValue, "ok")
            ELSE \* get_or_create made the line, quantity defaults to 1
                 LET item == [product |-> p, quantity |-> 1] IN
                 IF created_exceeds_stock(item)
                 THEN /\ cartItems' = cartItems
                      /\ last' = Served("add_to_cart", {u}, {}, NoValue, "InsufficientStock")
                 ELSE /\ cartItems' = [cartItems EXCEPT ![u] = @ \cup {item}]
                      /\ last' = Served("add_to_cart", {u}, {}, NoValue, "ok")

\* remove_from_cart; the item id is (owner, product)
remove_from_cart(u, owner, p) ==
    /\ UNCHANGED <<stock, price, hasCart, orders, nextOrder>>
    /\ IF owner # u \/ LinesOf(u, p) = {}
       THEN /\ cartItems' = cartItems
            /\ last' = Served("remove_from_cart", {u}, {}, NoValue, "NotFound")
       ELSE /\ cartItems' = [cartItems EXCEPT ![u] = @ \ LinesOf(u, p)]
            /\ last' = Served("remove_from_cart", {u}, {}, NoValue, "ok")

\* update_cart_item, line 141: the requested quantity exceeds the stock
update_reaches_stock(quantity, p) == quantity >= stock[p]

update_exceeds_stock(quantity, p) == quantity > stock[p]

\* update_cart_item; the item id is (owner, product)
update_cart_item_saving_any(u, owner, p, quantity) ==
    /\ UNCHANGED <<stock, price, hasCart, orders, nextOrder>>
    /\ IF owner # u \/ LinesOf(u, p) = {}
       THEN /\ cartItems' = cartItems
            /\ last' = Served("update_cart_item", {u}, {}, NoValue, "NotFound")
       ELSE LET item == CHOOSE i \in LinesOf(u, p) : TRUE IN
            IF update_exceeds_stock(quantity, p)
            THEN /\ cartItems' = cartItems
                 /\ last' = Served("update_cart_item", {u}, {}, NoValue, "InsufficientStock")
            ELSE /\ cartItems' = [cartItems EXCEPT ![u] =
                        (@ \ {item}) \cup {[item EXCEPT !.quantity = quantity]}]
                 /\ last' = Served("update_cart_item", {u}, {}, NoValue, "ok")

update_cart_item(u, owner, p, quantity) ==
    /\ UNCHANGED <<stock, price, hasCart, orders, nextOrder>>
    /\ IF owner # u \/ LinesOf(u, p) = {}
       THEN /\ cartItems' = cartItems
            /\ last' = Served("update_cart_item", {u}, {}, NoValue, "NotFound")
       ELSE LET item == CHOOSE i \in LinesOf(u, p) : TRUE IN
            IF update_exceeds_stock(quantity, p)
            THEN /\ cartItems' = cartItems
                 /\ last' = Served("update_cart_item", {u}, {}, NoValue, "InsufficientStock")
            ELSE /\ cartItems' = [cartItems EXCEPT ![u] =
                        IF quantity > 0
                        THEN (@ \ {item}) \cup {[item EXCEPT !.quantity = quantity]}
                        ELSE @ \ {item}]
                 /\ last' = Served("update_cart_item", {u}, {}, NoValue, "ok")

\* --------------------------------------------------------------- checkout
\* checkout, line 157: not cart.items.exists()
cart_is_empty_never(u) == FALSE

cart_is_empty(u) == cartItems[u] = {}

\* checkout, line 163: a cart line asks for more than the product has
checkout_line_short_lax(item) == item.quantity > stock[item.product] + 1

checkout_line_short(item) == item.quantity > stock[item.product]

\* CartItem.total_price, summed by Cart.total_price
cart_total_price(u) ==
    LET sq == RowOrder(cartItems[u]) IN
    SumSeq([i \in 1..Len(sq) |-> price[sq[i].product] * sq[i].quantity])

\* checkout, line 185: the surcharge added to the cart total, in hundredths
delivery_surcharge_unless_pickup(delivery_method) ==
    IF delivery_method \notin {NoValue, "pickup"} THEN DeliveryFee * PriceScale ELSE 0

delivery_surcharge(delivery_method) ==
    IF delivery_method = "delivery" THEN DeliveryFee * PriceScale ELSE 0

\* checkout, line 183: request.POST.get('delivery_method', 'pickup')
posted_delivery_method(delivery_method) ==
    IF delivery_method = NoValue THEN "pickup" ELSE delivery_method

\* checkout, lines 193-198: the OrderItem made from a cart line
order_item(item) ==
    [product |-> item.product, quantity |-> item.quantity, price |-> price[item.product]]

\* checkout, lines 201-203: the stock after the lines sq were taken from it
RECURSIVE checkout_deplete(_, _)
checkout_deplete_one_each(st, sq) ==
    IF sq = <<>> THEN st
    ELSE checkout_deplete([st EXCEPT ![Head(sq).product] = @ - 1], Tail(sq))

checkout_deplete(st, sq) ==
    IF sq = <<>> THEN st
    ELSE checkout_deplete([st EXCEPT ![Head(sq).product] = @ - Head(sq).quantity], Tail(sq))

\* Order.objects.create(...) followed by the OrderItem rows
new_order(u, delivery_method) ==
    [user |-> u,
     status |-> "new",
     delivery_method |-> posted_delivery_method(delivery_method),
     total_price |-> cart_total_price(u) + delivery_surcharge(delivery_method),
     items |-> {order_item(item) : item \in cartItems[u]}]

checkout_passes(u) ==
    /\ hasCart[u]
    /\ ~cart_is_empty(u)
    /\ \A item \in cartItems[u] : ~checkout_line_short(item)

checkout(u, method, delivery_method) ==
    /\ UNCHANGED <<price, hasCart>>
    /\ IF ~hasCart[u]
       THEN /\ last' = Served("checkout", {u}, {}, NoValue, "NotFound")
            /\ UNCHANGED <<stock, cartItems, orders, nextOrder>>
       ELSE IF cart_is_empty(u)
       THEN /\ last' = Served("checkout", {u}, {}, NoValue, "EmptyCart")
            /\ UNCHANGED <<stock, cartItems, orders, nextOrder>>
       ELSE IF \E item \in cartItems[u] : checkout_line_short(item)
       THEN /\ last' = Served("checkout", {u}, {}, NoValue, "InsufficientStock")
            /\ UNCHANGED <<stock, cartItems, orders, nextOrder>>
       ELSE IF method = "POST"
       THEN /\ orders' = [o \in DOMAIN orders \cup {nextOrder} |->
                            IF o = nextOrder THEN new_order(u, delivery_method) ELSE orders[o]]
            /\ nextOrder' = nextOrder + 1
            /\ stock' = checkout_deplete(stock, RowOrder(cartItems[u]))
            /\ cartItems' = [cartItems EXCEPT ![u] = {}]
            /\ last' = Served("checkout", {u}, {nextOrder}, NoValue, "ok")
       ELSE /\ last' = Served("checkout", {u}, {}, NoValue, "rendered")
            /\ UNCHANGED <<stock, cartItems, orders, nextOrder>>

\* ------------------------------------------- checkout, statement by statement
\* The view holds no lock and opens no transaction: between its queries the
\* requests of other users are served.  Its steps are cut where it reads or
\* writes Product.stock.

\* checkout, lines 155-189: the cart is validated and the Order row created;
\* sq is the order in which the loop of line 192 will meet the cart lines
checkout_validate(u, method, delivery_method) ==
    /\ UNCHANGED <<stock, price, hasCart, cartItems>>
    /\ IF ~hasCart[u]
       THEN /\ last' = Served("checkout", {u}, {}, NoValue, "NotFound")
            /\ UNCHANGED <<orders, nextOrder, checkouts>>
       ELSE IF cart_is_empty(u)
       THEN /\ last' = Served("checkout", {u}, {}, NoValue, "EmptyCart")
            /\ UNCHANGED <<orders, nextOrder, checkouts>>
       ELSE IF \E item \in cartItems[u] : checkout_line_short(item)
       THEN /\ last' = Served("checkout", {u}, {}, NoValue, "InsufficientStock")
            /\ UNCHANGED <<orders, nextOrder, checkouts>>
       ELSE IF method = "POST"
       THEN \E sq \in RowOrders(cartItems[u]) :
              /\ orders' = [o \in DOMAIN orders \cup {nextOrder} |->
                              IF o = nextOrder
                              THEN [new_order(u, delivery_method) EXCEPT !.items = {}]
                              ELSE orders[o]]
              /\ nextOrder' = nextOrder + 1
              /\ checkouts' = [checkouts EXCEPT ![u] =
                      [order |-> {nextOrder}, todo |-> sq, product_stock |-> {}]]
              /\ last' = last
       ELSE /\ last' = Served("checkout", {u}, {}, NoValue, "rendered")
            /\ UNCHANGED <<orders, nextOrder, checkouts>>

\* checkout, lines 192-198: the loop meets the next cart line, loads its
\* Product row and creates the OrderItem
checkout_create_item(u) ==
    /\ checkouts[u].order # {} /\ checkouts[u].todo # <<>>
    /\ checkouts[u].product_stock = {}
    /\ LET item == Head(checkouts[u].todo) IN
       /\ orders' = [o \in DOMAIN orders |->
                       IF o \in checkouts[u].order
                       THEN [orders[o] EXCEPT !.items = @ \cup {order_item(item)}]
                       ELSE orders[o]]
       /\ checkouts' = [checkouts EXCEPT ![u].product_stock = {stock[item.product]}]
    /\ UNCHANGED <<stock, price, hasCart, cartItems, nextOrder, last>>

\* Product.stock is a PositiveIntegerField: the database refuses a negative value
stock_save_unconstrained(value) == FALSE

stock_save_refused(value) == value < 0

\* checkout, lines 201-203: the loaded Product row is saved with the line's
\* quantity taken off its stock; a refused save ends the request with an error
checkout_save_product(u) ==
    /\ checkouts[u].product_stock # {}
    /\ UNCHANGED <<price, hasCart, cartItems, orders, nextOrder>>
    /\ LET item == Head(checkouts[u].todo) IN
       \E loaded \in checkouts[u].product_stock :
          IF stock_save_refused(loaded - item.quantity)
          THEN /\ stock' = stock
               /\ checkouts' = [checkouts EXCEPT ![u] = NoCheckout]
               /\ last' = Served("checkout", {u}, checkouts[u].order, NoValue, "IntegrityError")
          ELSE /\ stock' = [stock EXCEPT ![item.product] = loaded - item.quantity]
               /\ checkouts' = [checkouts EXCEPT ![u] =
                       [@ EXCEPT !.todo = Tail(@), !.product_stock = {}]]
               /\ last' = last

\* checkout, lines 206-209: the loop is over, the cart lines are deleted
checkout_clear_cart(u) ==
    /\ checkouts[u].order # {} /\ checkouts[u].todo = <<>>
    /\ cartItems' = [cartItems EXCEPT ![u] = {}]
    /\ checkouts' = [checkouts EXCEPT ![u] = NoCheckout]
    /\ last' = Served("checkout", {u}, checkouts[u].order, NoValue, "ok")
    /\ UNCHANGED <<stock, price, hasCart, orders, nextOrder>>

\* ----------------------------------------------------------- order status
\* the stock after the items sq were returned to it
\* (cancel_order 338-341, admin_order_detail 480-483, admin_order_delete 696-699)
RECURSIVE return_to_stock(_, _)
return_to_stock_one_each(st, sq) ==
    IF sq = <<>> THEN st
    ELSE return_to_stock([st EXCEPT ![Head(sq).product] = @ + 1], Tail(sq))

return_to_stock(st, sq) ==
    IF sq = <<>> THEN st
    ELSE return_to_stock([st EXCEPT ![Head(sq).product] = @ + Head(sq).quantity], Tail(sq))

\* cancel_order, line 336: a user may cancel the order
user_may_cancel_unprocessed(status) == status \in {"new", "processing"}

user_may_cancel_always(status) == TRUE

user_may_cancel(status) == status = "new"

cancel_order(u, o) ==
    /\ UNCHANGED <<price, hasCart, cartItems, nextOrder>>
    /\ IF o \notin DOMAIN orders \/ orders[o].user # u
       THEN /\ last' = Served("cancel_order", {u}, {o}, NoValue, "NotFound")
            /\ UNCHANGED <<stock, orders>>
       ELSE IF user_may_cancel(orders[o].status)
       THEN /\ stock' = return_to_stock(stock, RowOrder(orders[o].items))
            /\ orders' = [orders EXCEPT ![o].status = "cancelled"]
            /\ last' = Served("cancel_order", {u}, {o}, orders[o].status, "ok")
       ELSE /\ last' = Served("cancel_order", {u}, {o}, orders[o].status, "InvalidTransition")
            /\ UNCHANGED <<stock, orders>>

\* admin_order_detail, lines 486-492: the items sq are checked and taken from
\* the stock one after the other; the loop stops at the first short item
RECURSIVE restore_loop(_, _)
restore_loop_unchecked(st, sq) ==
    IF sq = <<>> THEN [stock |-> st, ok |-> TRUE]
    ELSE restore_loop([st EXCEPT ![Head(sq).product] = @ - Head(sq).quantity], Tail(sq))

restore_loop(st, sq) ==
    IF sq = <<>> THEN [stock |-> st, ok |-> TRUE]
    ELSE IF Head(sq).quantity > st[Head(sq).product]
    THEN [stock |-> st, ok |-> FALSE]
    ELSE restore_loop([st EXCEPT ![Head(sq).product] = @ - Head(sq).quantity], Tail(sq))

\* admin_order_detail, line 477
status_moves_forward(old_status, new_status) ==
    LET lifecycle == <<"new", "processing", "paid", "shipped", "completed", "cancelled">>
        rank(st) == CHOOSE k \in 1..Len(lifecycle) : lifecycle[k] = st
    IN  new_status # NoValue /\ rank(new_status) > rank(old_status)

status_changes(old_status, new_status) ==
    new_status # NoValue /\ new_status # old_status

\* admin_order_detail, line 479
is_cancellation_of_new(old_status, new_status) ==
    new_status = "cancelled" /\ old_status = "new"

is_cancellation(old_status, new_status) ==
    new_status = "cancelled" /\ old_status # "cancelled"

\* admin_order_detail, line 485
is_restoration_to_new(old_status, new_status) ==
    old_status = "cancelled" /\ new_status = "new"

is_restoration_from_any(old_status, new_status) ==
    new_status # "cancelled"

is_restoration(old_status, new_status) ==
    old_status = "cancelled" /\ new_status # "cancelled"

admin_order_detail(o, method, new_status) ==
    /\ UNCHANGED <<price, hasCart, cartItems, nextOrder>>
    /\ IF o \notin DOMAIN orders
       THEN /\ last' = Served("admin_order_detail", {}, {o}, NoValue, "NotFound")
            /\ UNCHANGED <<stock, orders>>
       ELSE IF method # "POST"
       THEN /\ last' = Served("admin_order_detail", {}, {o}, orders[o].status, "rendered")
            /\ UNCHANGED <<stock, orders>>
       ELSE LET old_status == orders[o].status IN
            IF ~status_changes(old_status, new_status)
            THEN /\ last' = Served("admin_order_detail", {}, {o}, orders[o].status, "ok")
                 /\ UNCHANGED <<stock, orders>>
            ELSE IF is_cancellation(old_status, new_status)
            THEN /\ stock' = return_to_stock(stock, RowOrder(orders[o].items))
                 /\ orders' = [orders EXCEPT ![o].status = new_status]
                 /\ last' = Served("admin_order_detail", {}, {o}, orders[o].status, "ok")
            ELSE IF is_restoration(old_status, new_status)
            THEN \E sq \in RowOrders(orders[o].items) :
                   LET r == restore_loop(stock, sq) IN
                   /\ stock' = r.stock
                   /\ IF r.ok
                      THEN /\ orders' = [orders EXCEPT ![o].status = new_status]
                           /\ last' = Served("admin_order_detail", {}, {o}, orders[o].status, "ok")
                      ELSE /\ orders' = orders
                           /\ last' = Served("admin_order_detail", {}, {o}, orders[o].status, "InsufficientStock")
            ELSE /\ stock' = stock
                 /\ orders' = [orders EXCEPT ![o].status = new_status]
                 /\ last' = Served("admin_order_detail", {}, {o}, orders[o].status, "ok")

\* admin_order_delete, line 695
delete_returns_stock_always(status) == TRUE

delete_returns_stock(status) == status # "cancelled"

admin_order_delete(o, method) ==
    /\ UNCHANGED <<price, hasCart, cartItems, nextOrder>>
    /\ IF o \notin DOMAIN orders
       THEN /\ last' = Served("admin_order_delete", {}, {o}, NoValue, "NotFound")
            /\ UNCHANGED <<stock, orders>>
       ELSE IF method # "POST"
       THEN /\ last' = Served("admin_order_delete", {}, {o}, orders[o].status, "rendered")
            /\ UNCHANGED <<stock, orders>>
       ELSE /\ stock' = IF delete_returns_stock(orders[o].status)
                        THEN return_to_stock(stock, RowOrder(orders[o].items))
                        ELSE stock
            /\ orders' = [x \in DOMAIN orders \ {o} |-> orders[x]]
            /\ last' = Served("admin_order_delete", {}, {o}, orders[o].status, "ok")

\* admin_product_edit with a form that changes the price only
admin_product_edit_repricing(p, new_price) ==
    /\ price' = [price EXCEPT ![p] = new_price]
    /\ orders' = [o \in DOMAIN orders |->
                    [orders[o] EXCEPT !.items =
                        {IF i.product = p THEN [i EXCEPT !.price = new_price] ELSE i : i \in @}]]
    /\ last' = Served("admin_product_edit", {}, {}, NoValue, "ok")
    /\ UNCHANGED <<stock, hasCart, cartItems, nextOrder>>

admin_product_edit(p, new_price) ==
    /\ price' = [price EXCEPT ![p] = new_price]
    /\ last' = Served("admin_product_edit", {}, {}, NoValue, "ok")
    /\ UNCHANGED <<stock, hasCart, cartItems, orders, nextOrder>>

\* ------------------------------------------------------------------ Next
\* The requests of a run: the shop users who send them, the number of orders
\* the run may place, and the delivery methods the checkout form may post.
\* These requests are served in one piece; a user sends none while a checkout
\* of theirs is in progress.
CartView(users) == \E u \in Waiting(users) : cart_view(u) /\ UNCHANGED checkouts
AddToCart(users) ==
    \E u \in Waiting(users), p \in Products : add_to_cart(u, p) /\ UNCHANGED checkouts
RemoveFromCart(users) ==
    \E u \in Waiting(users), owner \in users, p \in Products :
        remove_from_cart(u, owner, p) /\ UNCHANGED checkouts
UpdateCartItem(users) ==
    \E u \in Waiting(users), owner \in users, p \in Products, quantity \in QuantityInputs :
        update_cart_item(u, owner, p, quantity) /\ UNCHANGED checkouts
\* a GET carries no form fields
Checkout(users, cap, deliveries) ==
    \E u \in Waiting(users), method \in Methods :
        \E delivery_method \in IF method = "POST" THEN deliveries ELSE {NoValue} :
            /\ (checkout_passes(u) /\ method = "POST") => nextOrder <= cap
            /\ checkout(u, method, delivery_method)
            /\ UNCHANGED checkouts
CancelOrder(users) ==
    \E u \in Waiting(users), o \in OrderIds : cancel_order(u, o) /\ UNCHANGED checkouts
AdminOrderDetail ==
    \E o \in OrderIds, method \in Methods :
        \E new_status \in IF method = "POST" THEN StatusInputs ELSE {NoValue} :
            admin_order_detail(o, method, new_status) /\ UNCHANGED checkouts
AdminOrderDelete ==
    \E o \in OrderIds, method \in Methods :
        admin_order_delete(o, method) /\ UNCHANGED checkouts
AdminProductEdit ==
    \E p \in Products, new_price \in Prices :
        admin_product_edit(p, new_price) /\ UNCHANGED checkouts

\* one shopper placing up to MaxOrders orders; the checkout form posts no
\* delivery method
Next ==
    \/ CartView(SoloUsers)
    \/ AddToCart(SoloUsers)
    \/ RemoveFromCart(SoloUsers)
    \/ UpdateCartItem(SoloUsers)
    \/ Checkout(SoloUsers, MaxOrders, {NoValue})
    \/ CancelOrder(SoloUsers)
    \/ AdminOrderDetail
    \/ AdminOrderDelete

Spec == Init /\ [][Next]_vars

\* every shop user, MaxOrdersShared orders placed between them
NextShoppers ==
    \/ CartView(Users)
    \/ AddToCart(Users)
    \/ RemoveFromCart(Users)
    \/ UpdateCartItem(Users)
    \/ Checkout(Users, MaxOrdersShared, {NoValue})
    \/ CancelOrder(Users)
    \/ AdminOrderDetail
    \/ AdminOrderDelete

SpecShoppers == Init /\ [][NextShoppers]_vars

\* one shopper and MaxOrdersShared orders, every delivery method, and an
\* administrator who edits the prices meanwhile
NextPricing ==
    \/ CartView(SoloUsers)
    \/ AddToCart(SoloUsers)
    \/ RemoveFromCart(SoloUsers)
    \/ UpdateCartItem(SoloUsers)
    \/ Checkout(SoloUsers, MaxOrdersShared, DeliveryInputs)
    \/ CancelOrder(SoloUsers)
    \/ AdminOrderDetail
    \/ AdminOrderDelete
    \/ AdminProductEdit

SpecPricing == Init /\ [][NextPricing]_vars

\* the checkout requests of every shop user, served statement by statement
\* and interleaved with each other and with the cart requests
CheckoutValidate ==
    \E u \in Waiting(Users), method \in Methods :
        /\ (checkout_passes(u) /\ method = "POST") => nextOrder <= MaxOrders
        /\ checkout_validate(u, method, NoValue)
CheckoutCreateItem == \E u \in Users : checkout_create_item(u)
CheckoutSaveProduct == \E u \in Users : checkout_save_product(u)
CheckoutClearCart == \E u \in Users : checkout_clear_cart(u)

NextRace ==
    \/ CartView(Users)
    \/ AddToCart(Users)
    \/ RemoveFromCart(Users)
    \/ UpdateCartItem(Users)
    \/ CheckoutValidate
    \/ CheckoutCreateItem
    \/ CheckoutSaveProduct
    \/ CheckoutClearCart

SpecRace == Init /\ [][NextRace]_vars

\* ============================================================ properties
\* the units of product p that order o holds
OrderedQuantity(o, p) ==
    LET sq == RowOrder({i \in orders[o].items : i.product = p}) IN
    SumSeq([k \in 1..Len(sq) |-> sq[k].quantity])

\* the sum over the items of quantity * price
ItemsTotal(items) ==
    LET sq == RowOrder(items) IN
    SumSeq([k \in 1..Len(sq) |-> sq[k].quantity * sq[k].price])

\* a step that takes order o out of / into the cancelled status
Cancels(o) ==
    /\ o \in DOMAIN orders /\ o \in DOMAIN orders'
    /\ orders[o].status # "cancelled" /\ orders'[o].status = "cancelled"
Restores(o) ==
    /\ o \in DOMAIN orders /\ o \in DOMAIN orders'
    /\ orders[o].status = "cancelled" /\ orders'[o].status # "cancelled"

\* C1: the stock of every product is at least zero in every state reached by
\* cart changes, checkouts, user cancellations, admin status changes and admin
\* order deletions, each served to completion before the next.
C1_StockNeverNegative == \A p \in Products : stock[p] >= 0

\* a cancelled order was restored and took the last units of a product
C1_Witness ==
    /\ last.op = "admin_order_detail" /\ last.was = "cancelled" /\ last.result = "ok"
    /\ \E o \in last.order \cap DOMAIN orders :
          /\ orders[o].status # "cancelled"
          /\ \E i \in orders[o].items : stock[i.product] = 0

\* C2: a checkout of a cart with a line whose quantity exceeds the product's
\* stock is rejected with InsufficientStock; it creates no order and leaves
\* every stock and every cart line as it was.
C2_ShortCheckoutRejected ==
    [][\A u \in Users :
         (/\ last'.op = "checkout" /\ last'.user = {u}
          /\ \E item \in cartItems[u] : item.quantity > stock[item.product])
         => /\ last'.result = "InsufficientStock"
            /\ orders' = orders /\ nextOrder' = nextOrder
            /\ stock' = stock
            /\ cartItems' = cartItems]_vars

\* a checkout was rejected for a line that was accepted while stock sufficed
C2_Witness ==
    /\ last.op = "checkout" /\ last.result = "InsufficientStock"
    /\ \E u \in last.user : \E item \in cartItems[u] :
          item.quantity > stock[item.product] /\ stock[item.product] > 0

\* C3: the total of every order is the sum over its items of quantity * price,
\* plus the delivery fee of 500 exactly when its delivery method is "delivery".
C3_OrderTotal ==
    \A o \in DOMAIN orders :
        orders[o].total_price =
            ItemsTotal(orders[o].items)
            + (IF orders[o].delivery_method = "delivery" THEN DeliveryFee * PriceScale ELSE 0)

\* an order of two lines with delivery, one of its products repriced since
C3_Witness ==
    \E o \in DOMAIN orders :
        /\ orders[o].delivery_method = "delivery"
        /\ Cardinality(orders[o].items) = 2
        /\ \E i \in orders[o].items : i.price # price[i.product]
        /\ orders[o].total_price = ItemsTotal(orders[o].items) + 50000

\* C4: cancelling an order adds each item's quantity to its product's stock,
\* and a restore that follows the cancellation takes the same quantities off
\* again, so the pair leaves every stock where it was.
C4_CancelRestoreRoundTrip ==
    [][\A o \in OrderIds :
         /\ Cancels(o) =>
               \A p \in Products : stock'[p] = stock[p] + OrderedQuantity(o, p)
         /\ (/\ Restores(o)
             /\ last.order = {o} /\ last.result = "ok"
             /\ last.op \in {"cancel_order", "admin_order_detail"}
             /\ last.was \notin {NoValue, "cancelled"}) =>
               \A p \in Products : stock'[p] = stock[p] - OrderedQuantity(o, p)]_vars

\* an order of two lines is active again after its cancellation
C4_Witness ==
    /\ last.op = "admin_order_detail" /\ last.was = "cancelled" /\ last.result = "ok"
    /\ \E o \in last.order \cap DOMAIN orders :
          /\ orders[o].status # "cancelled"
          /\ Cardinality(orders[o].items) = 2

\* C5: an admin change of a cancelled order to another status, while an item
\* asks for more than its product's stock, fails with InsufficientStock and
\* the order stays cancelled.
C5_ShortRestoreRejected ==
    [][\A o \in OrderIds :
         (/\ last'.op = "admin_order_detail" /\ last'.order = {o}
          /\ o \in DOMAIN orders
          /\ orders[o].status = "cancelled"
          /\ \E i \in orders[o].items : i.quantity > stock[i.product])
         => \A new_status \in STATUS_CHOICES \ {"cancelled"} :
               admin_order_detail(o, "POST", new_status)
               => /\ last'.result = "InsufficientStock"
                  /\ o \in DOMAIN orders'
                  /\ orders'[o].status = "cancelled"]_vars

\* a restore was refused and the order is still cancelled
C5_Witness ==
    /\ last.op = "admin_order_detail" /\ last.result = "InsufficientStock"
    /\ \E o \in last.order \cap DOMAIN orders :
          /\ orders[o].status = "cancelled"
          /\ \E i \in orders[o].items : i.quantity > stock[i.product]

\* C6: a refused restore leaves the stock of every product as it was.
C6_RefusedRestoreKeepsStock ==
    [][(last'.op = "admin_order_detail" /\ last'.result = "InsufficientStock")
         => stock' = stock]_vars

\* C7: deleting an order removes it; the stock of each item's product grows
\* by the item's quantity if the order was not cancelled and is unchanged if
\* it was.
C7_DeleteReturnsStock ==
    [][\A o \in OrderIds :
         (/\ o \in DOMAIN orders
          /\ last'.op = "admin_order_delete" /\ last'.order = {o} /\ last'.result = "ok")
         => /\ DOMAIN orders' = DOMAIN orders \ {o}
            /\ \A x \in DOMAIN orders' : orders'[x] = orders[x]
            /\ \A p \in Products :
                  stock'[p] = IF orders[o].status # "cancelled"
                              THEN stock[p] + OrderedQuantity(o, p)
                              ELSE stock[p]]_vars

\* an order that was not cancelled is deleted and its units are back
C7_Witness ==
    /\ last.op = "admin_order_delete" /\ last.result = "ok"
    /\ last.was \notin {NoValue, "cancelled"}
    /\ last.order # {} /\ last.order \cap DOMAIN orders = {}
    /\ \A p \in Products : stock[p] = MaxStock

\* C8: a checkout of a cart without lines is rejected with EmptyCart; it
\* creates no order and changes no stock.
C8_EmptyCheckoutRejected ==
    [][\A u \in Users :
         (/\ last'.op = "checkout" /\ last'.user = {u}
          /\ hasCart[u] /\ cartItems[u] = {})
         => /\ last'.result = "EmptyCart"
            /\ orders' = orders /\ nextOrder' = nextOrder
            /\ stock' = stock]_vars

\* a user whose cart holds no line was refused the checkout
C8_Witness ==
    /\ last.op = "checkout" /\ last.result = "EmptyCart"
    /\ \E u \in last.user : hasCart[u] /\ cartItems[u] = {}

\* C9: add_to_cart of a product without stock is rejected with OutOfStock;
\* no cart line is made for it and a line left from earlier is not touched.
C9_AddWithoutStockRejected ==
    [][\A u \in Users, p \in Products :
         (/\ last'.op = "add_to_cart" /\ last'.user = {u}
          /\ stock[p] = 0
          /\ add_to_cart(u, p))
         => /\ last'.result = "OutOfStock"
            /\ cartItems' = cartItems]_vars

\* the add was refused while the user still holds a line of the product
C9_Witness ==
    /\ last.op = "add_to_cart" /\ last.result = "OutOfStock"
    /\ \E u \in last.user, p \in Products : stock[p] = 0 /\ LinesOf(u, p) # {}

\* C10: cancel_order by the order's user succeeds only while the status is
\* new; in every other status it is rejected with InvalidTransition and
\* changes neither the order nor any stock.
C10_UserCancelOnlyNew ==
    [][\A u \in Users, o \in OrderIds :
         (/\ o \in DOMAIN orders /\ orders[o].user = u
          /\ last'.op = "cancel_order" /\ last'.user = {u} /\ last'.order = {o})
         => IF orders[o].status = "new"
            THEN /\ last'.result = "ok"
                 /\ orders'[o].status = "cancelled"
            ELSE /\ last'.result = "InvalidTransition"
                 /\ orders' = orders
                 /\ stock' = stock]_vars

\* a user was refused the cancellation of a shipped order
C10_Witness ==
    /\ last.op = "cancel_order" /\ last.result = "InvalidTransition"
    /\ \E o \in last.order \cap DOMAIN orders :
          /\ last.user = {orders[o].user}
          /\ orders[o].status = "shipped"

\* the units of product p that the cart of user u holds
CartQuantity(u, p) ==
    LET sq == RowOrder(LinesOf(u, p)) IN
    SumSeq([k \in 1..Len(sq) |-> sq[k].quantity])

\* C11: a successful checkout adds one order with status new whose items are
\* the cart lines, one item per line, each with the line's product and
\* quantity and the product's price of that moment; it takes each line's
\* quantity off its product's stock, leaves every other stock and every other
\* order as they were, and leaves the user's cart without lines.
C11_CheckoutMaterializes ==
    [][\A u \in Users :
         (/\ last'.op = "checkout" /\ last'.user = {u} /\ last'.result = "ok")
         => /\ nextOrder \notin DOMAIN orders
            /\ DOMAIN orders' = DOMAIN orders \cup {nextOrder}
            /\ \A x \in DOMAIN orders : orders'[x] = orders[x]
            /\ orders'[nextOrder].user = u
            /\ orders'[nextOrder].status = "new"
            /\ orders'[nextOrder].items =
                  {[product |-> i.product, quantity |-> i.quantity,
                    price |-> price[i.product]] : i \in cartItems[u]}
            /\ Cardinality(orders'[nextOrder].items) = Cardinality(cartItems[u])
            /\ \A p \in Products : stock'[p] = stock[p] - CartQuantity(u, p)
            /\ cartItems'[u] = {}
            /\ \A v \in Users \ {u} : cartItems'[v] = cartItems[v]]_vars

\* a checkout made an order of one line of two units at an edited price and
\* left the other product's stock alone
C11_Witness ==
    /\ last.op = "checkout" /\ last.result = "ok"
    /\ \E o \in last.order \cap DOMAIN orders :
          /\ orders[o].status = "new"
          /\ \E i \in orders[o].items :
                /\ orders[o].items = {i}
                /\ i.quantity = 2
                /\ i.price # InitialPrice[i.product]
                /\ i.price = price[i.product]
                /\ stock[i.product] = MaxStock - 2
                /\ \A p \in Products \ {i.product} : stock[p] = MaxStock
          /\ \A u \in last.user : cartItems[u] = {}

\* C12: add_to_cart of a product in stock writes no cart line with a quantity
\* above the product's stock: without a line it makes one of quantity 1; with a
\* line it raises the quantity by one if the new quantity is within the stock,
\* and otherwise fails with InsufficientStock and leaves the line as it was.
C12_AddWithinStock ==
    [][\A u \in Users, p \in Products :
         (/\ last'.op = "add_to_cart" /\ last'.user = {u}
          /\ stock[p] > 0
          /\ add_to_cart(u, p))
         => /\ IF LinesOf(u, p) = {}
               THEN /\ last'.result = "ok"
                    /\ cartItems'[u] = cartItems[u] \cup {[product |-> p, quantity |-> 1]}
               ELSE \A item \in LinesOf(u, p) :
                      IF item.quantity + 1 <= stock[p]
                      THEN /\ last'.result = "ok"
                           /\ cartItems'[u] = (cartItems[u] \ {item})
                                  \cup {[product |-> p, quantity |-> item.quantity + 1]}
                      ELSE /\ last'.result = "InsufficientStock"
                           /\ cartItems'[u] = cartItems[u]
            /\ \A i \in cartItems'[u] \ cartItems[u] : i.quantity <= stock[i.product]
            /\ \A v \in Users \ {u} : cartItems'[v] = cartItems[v]
            /\ stock' = stock]_vars

\* an add was refused for a line that already holds the whole stock
C12_Witness ==
    /\ last.op = "add_to_cart" /\ last.result = "InsufficientStock"
    /\ \E u \in last.user, p \in Products :
          /\ stock[p] > 0
          /\ \E item \in LinesOf(u, p) : item.quantity = stock[p]

\* C13: update_cart_item of a user's own line with the requested quantity q
\* fails with InsufficientStock and leaves the line as it was if q exceeds the
\* product's stock; otherwise it deletes the line if q <= 0 and sets the
\* line's quantity to exactly q if q > 0. No other line and no stock changes.
C13_UpdateSetsQuantity ==
    [][\A u \in Users, p \in Products, q \in QuantityInputs :
         (/\ last'.op = "update_cart_item" /\ last'.user = {u}
          /\ LinesOf(u, p) # {}
          /\ update_cart_item(u, u, p, q))
         => /\ IF q > stock[p]
               THEN /\ last'.result = "InsufficientStock"
                    /\ cartItems'[u] = cartItems[u]
               ELSE IF q <= 0
               THEN /\ last'.result = "ok"
                    /\ cartItems'[u] = cartItems[u] \ LinesOf(u, p)
               ELSE /\ last'.result = "ok"
                    /\ cartItems'[u] = (cartItems[u] \ LinesOf(u, p))
                           \cup {[product |-> p, quantity |-> q]}
            /\ \A v \in Users \ {u} : cartItems'[v] = cartItems[v]
            /\ stock' = stock]_vars

\* an update set a line to the whole stock of its product, next to another line
C13_Witness ==
    /\ last.op = "update_cart_item" /\ last.result = "ok"
    /\ \E u \in last.user :
          /\ Cardinality(cartItems[u]) = 2
          /\ \E item \in cartItems[u] :
                item.quantity = MaxStock /\ stock[item.product] = MaxStock

\* C14: a user's cancel_order that succeeds, and an admin's change to
\* cancelled of an order in any other status, set the order's status to
\* cancelled and add to the stock of each item's product exactly the item's
\* quantity; the order's items and the other orders stay as they were.
C14_CancellationReturnsStock ==
    [][\A o \in OrderIds :
         (/\ last'.order = {o}
          /\ o \in DOMAIN orders
          /\ orders[o].status # "cancelled"
          /\ \/ last'.op = "cancel_order" /\ last'.result = "ok"
             \/ /\ last'.op = "admin_order_detail"
                /\ admin_order_detail(o, "POST", "cancelled"))
         => /\ last'.result = "ok"
            /\ orders' = [orders EXCEPT ![o].status = "cancelled"]
            /\ \A p \in Products : stock'[p] = stock[p] + OrderedQuantity(o, p)]_vars

\* an administrator cancelled a shipped order of two lines and every unit
\* is back in stock
C14_Witness ==
    /\ last.op = "admin_order_detail" /\ last.was = "shipped" /\ last.result = "ok"
    /\ \E o \in last.order \cap DOMAIN orders :
          /\ orders[o].status = "cancelled"
          /\ Cardinality(orders[o].items) = 2
          /\ DOMAIN orders = {o}
          /\ \A p \in Products : stock[p] = MaxStock

\* C15: an admin status change whose old and new status are both other than
\* cancelled, or whose new status is the old one, leaves the stock of every
\* product as it was, and the order then has the new status.
C15_OtherChangesKeepStock ==
    [][\A o \in OrderIds :
         (/\ last'.op = "admin_order_detail" /\ last'.order = {o}
          /\ o \in DOMAIN orders)
         => \A new_status \in STATUS_CHOICES :
               (/\ \/ new_status = orders[o].status
                   \/ orders[o].status # "cancelled" /\ new_status # "cancelled"
                /\ admin_order_detail(o, "POST", new_status))
               => /\ stock' = stock
                  /\ last'.result = "ok"
                  /\ orders' = [orders EXCEPT ![o].status = new_status]]_vars

\* an order went from paid to shipped while its units stay out of stock
C15_Witness ==
    /\ last.op = "admin_order_detail" /\ last.was = "paid" /\ last.result = "ok"
    /\ \E o \in last.order \cap DOMAIN orders :
          /\ orders[o].status = "shipped"
          /\ DOMAIN orders = {o}
          /\ \A p \in Products : stock[p] = MaxStock - OrderedQuantity(o, p)
          /\ \E p \in Products : OrderedQuantity(o, p) > 0

\* the units of product p that the orders other than cancelled hold together
UnitsHeld(p) ==
    LET sq == RowOrder({o \in DOMAIN orders : orders[o].status # "cancelled"}) IN
    SumSeq([k \in 1..Len(sq) |-> OrderedQuantity(sq[k], p)])

\* C16 as claimed: once interleaved checkouts have ordered more units of a
\* product than it had in stock and no checkout is in progress any more, the
\* product's stock is below zero.
C16_RaceDrivesStockNegative ==
    \A p \in Products :
        (/\ \A u \in Users : checkouts[u] = NoCheckout
         /\ UnitsHeld(p) > MaxStock)
        => stock[p] < 0

\* C16: interleaved checkouts can both pass the validation and order more
\* units than the stock holds, but no step stores a stock below zero: the save
\* of a Product row whose stock would fall below zero is refused, which ends
\* that checkout with an error and leaves the stock, its order with the items
\* created so far and the cart lines in place; every other save stores the
\* loaded stock less the line's quantity.
C16_RaceOversellsAboveZero ==
    [][/\ \A u \in Users : \A loaded \in checkouts[u].product_stock :
            checkouts'[u] # checkouts[u]
            => LET item == Head(checkouts[u].todo) IN
               IF loaded - item.quantity < 0
               THEN /\ stock' = stock
                    /\ orders' = orders
                    /\ cartItems' = cartItems
                    /\ checkouts'[u] = NoCheckout
                    /\ last'.op = "checkout" /\ last'.result = "IntegrityError"
               ELSE /\ stock' = [stock EXCEPT ![item.product] = loaded - item.quantity]
                    /\ checkouts'[u].order = checkouts[u].order
       /\ \A p \in Products : stock'[p] >= 0]_vars

\* two checkouts passed the validation and hold more units of a product than
\* it ever had; the second save was refused and the stock stands at zero
C16_Witness ==
    /\ last.op = "checkout" /\ last.result = "IntegrityError"
    /\ \A u \in Users : checkouts[u] = NoCheckout
    /\ \E p \in Products :
          /\ UnitsHeld(p) > MaxStock
          /\ stock[p] = 0
          /\ \E u \in last.user : LinesOf(u, p) # {}

\* C17: the items of an order are fixed when the checkout creates it, each
\* with its cart line's quantity and the product's price of that moment; no
\* later request that leaves the order in existence, a price edit or a status
\* change among them, changes an item's price or quantity.
C17_OrderItemsFrozen ==
    [][\A o \in DOMAIN orders' :
         IF o \in DOMAIN orders
         THEN orders'[o].items = orders[o].items
         ELSE \E u \in Users :
                /\ orders'[o].user = u
                /\ orders'[o].items =
                      {[product |-> i.product, quantity |-> i.quantity,
                        price |-> price[i.product]] : i \in cartItems[u]}]_vars

\* a shipped order keeps a price that its product no longer has, while the
\* buyer's cart holds the product again in another quantity
C17_Witness ==
    \E o \in DOMAIN orders :
        /\ orders[o].status = "shipped"
        /\ \E i \in orders[o].items :
              /\ i.price = InitialPrice[i.product]
              /\ i.price # price[i.product]
              /\ \E c \in LinesOf(orders[o].user, i.product) : c.quantity # i.quantity

\* C18: an admin request that sets an order's status to any other status,
\* forward or backward, is carried out in that one request, unless the order
\* is cancelled and an item asks for more than its product's stock: only then
\* is it refused, and the order stays cancelled.
C18_AdminSetsAnyStatus ==
    [][\A o \in OrderIds :
         (/\ last'.op = "admin_order_detail" /\ last'.order = {o}
          /\ o \in DOMAIN orders)
         => \A new_status \in STATUS_CHOICES \ {orders[o].status} :
               admin_order_detail(o, "POST", new_status)
               => IF /\ orders[o].status = "cancelled"
                     /\ \E i \in orders[o].items : i.quantity > stock[i.product]
                  THEN /\ last'.result = "InsufficientStock"
                       /\ orders' = orders
                  ELSE /\ last'.result = "ok"
                       /\ o \in DOMAIN orders'
                       /\ orders'[o].status = new_status]_vars

\* a completed order was set back to new in one request
C18_Witness ==
    /\ last.op = "admin_order_detail" /\ last.was = "completed" /\ last.result = "ok"
    /\ \E o \in last.order \cap DOMAIN orders : orders[o].status = "new"

\* C19: in every state reached by add_to_cart, update_cart_item,
\* remove_from_cart and checkout, each cart holds at most one line per
\* product and every line has a quantity of at least 1.
C19_CartLinesWellFormed ==
    \A u \in Users :
        /\ \A p \in Products : Cardinality(LinesOf(u, p)) <= 1
        /\ \A item \in cartItems[u] : item.quantity >= 1

\* a second add of the same product raised the line instead of making another
C19_Witness ==
    /\ last.op = "add_to_cart" /\ last.result = "ok"
    /\ \E u \in last.user :
          /\ Cardinality(cartItems[u]) = NumProducts
          /\ \E item \in cartItems[u] : item.quantity = MaxStock

\* C20: for every product, the stock plus the units that the orders other
\* than cancelled hold of it is the same in every state reached by cart
\* requests, checkouts, user cancellations, admin status changes, carried out
\* or refused, and admin order deletions.
C20_StockConserved ==
    \A p \in Products : stock[p] + UnitsHeld(p) = MaxStock

\* C21: once an order is cancelled, its units are not returned again: a user's
\* cancel_order of it, an admin change of its status to cancelled and an
\* admin_order_delete of it each leave the stock of every product as it was.
C21_CancelledReturnsNoMore ==
    [][\A o \in OrderIds :
         (/\ last'.order = {o}
          /\ o \in DOMAIN orders
          /\ orders[o].status = "cancelled"
          /\ \/ last'.op = "cancel_order"
             \/ last'.op = "admin_order_delete"
             \/ /\ last'.op = "admin_order_detail"
                /\ admin_order_detail(o, "POST", "cancelled"))
         => stock' = stock]_vars

\* the owner's second cancel_order of an order of two lines was refused and
\* the stock holds what the first one returned
C21_Witness ==
    /\ last.op = "cancel_order" /\ last.was = "cancelled"
    /\ last.result = "InvalidTransition"
    /\ \E o \in last.order \cap DOMAIN orders :
          /\ last.user = {orders[o].user}
          /\ orders[o].status = "cancelled"
          /\ Cardinality(orders[o].items) = 2
          /\ DOMAIN orders = {o}
          /\ \A p \in Products : stock[p] = MaxStock

====
